---- MODULE Spec2Model ----
(***************************************************************************)
(* Model of pdfCropMargins/pymupdf_routines.py: the class DocumentPages,   *)
(* which holds one PyMuPDF document and two per-page caches of display     *)
(* lists, and renders pages for the GUI (get_page) and for the cropping    *)
(* code (get_page_ppm_for_crop).                                           *)
(*                                                                         *)
(* Lengths are exact integers in a unit small enough that a quarter of a   *)
(* page side is a whole number; scale factors are exact fractions          *)
(* <<numerator, denominator>>.  Python's None, the empty tuple and the     *)
(* default zoom=False are the empty tuple <<>>.                            *)
(***************************************************************************)
EXTENDS Integers, Sequences, FiniteSets, TLC

\* ------------------------------------------------------------------ bounds
MaxPages == 2       \* largest page count of a file
MaxOpens == 2       \* successful fitz.open calls in one run
MaxDim   == 2       \* page sides are 4, 8, .. 4*MaxDim
MaxWin   == 2       \* viewport sides are 4, 8, .. 4*MaxWin

\* ------------------------------------------------------------- input sets
PageDims  == {4 * k : k \in 1..MaxDim}
PageSizes == PageDims \X PageDims
WinDims   == {4 * k : k \in 1..MaxWin}
Windows   == {<<>>} \cup (WinDims \X WinDims)
Arrows    == {-1, 0, 1}
PageNums  == 0..MaxPages

\* The files the caller may name: readable ones of every page count and
\* page size, and two that fitz.open refuses with RuntimeError.
ReadableFiles ==
    {[name |-> "readable.pdf", readable |-> TRUE, pages |-> n, size |-> s] :
        n \in 0..MaxPages, s \in PageSizes}
UnreadableFiles ==
    {[name |-> nm, readable |-> FALSE, pages |-> 0, size |-> <<0, 0>>] :
        nm \in {"corrupt.pdf", "truncated.pdf"}}
Files == ReadableFiles \cup UnreadableFiles

\* --------------------------------------------------------------- the state
VARIABLES
    num_pages,                   \* self.num_pages
    page_display_list_cache,     \* self.page_display_list_cache
    page_crop_image_list_cache,  \* self.page_crop_image_list_cache
    document,                    \* self.document (the fitz handle)
    handle_serial,               \* number of handles fitz.open has created
    closed_handles,              \* the handles that have been closed
    cache_cleared,               \* clear_cache ran after the last successful open
    getDisplayList_calls,        \* per caller and page: getDisplayList calls on the handle
    tl,                          \* the fitz.Point the caller passes as zoom[0]
    ret,                         \* the last call: arguments, outcome, value returned
    pc,                          \* "running" or "exited"
    exit_status,                 \* status the process exited with
    stderr,                      \* paths named by diagnostics printed to sys.stderr
    stale_deref                  \* a render read a closed handle or a display list of one

vars == <<num_pages, page_display_list_cache, page_crop_image_list_cache,
          document, handle_serial, closed_handles, cache_cleared,
          getDisplayList_calls, tl, ret, pc, exit_status, stderr, stale_deref>>

\* None in a cache slot; a display list remembers the handle and page it was
\* made from, which getDisplayList call made it, and the page rectangle.
None == [handle |-> 0, page |-> 0, serial |-> 0, rect |-> <<0, 0>>]

\* self.document before the first open_document (the attribute does not exist).
NoDocument == [id |-> 0, pages |-> 0, size |-> <<0, 0>>, closed |-> FALSE]

Callers == {"get_page", "get_page_ppm_for_crop"}

\* A mutation of NoneList: one slot too few.
NoneList_short(n) == [i \in 1..(n - 1) |-> None]

\* [None] * self.num_pages
NoneList(n) == [i \in 1..n |-> None]
ZeroCalls(n) == [c \in Callers |-> [i \in 1..n |-> 0]]

Call(op, args, outcome, value) ==
    [op |-> op, args |-> args, outcome |-> outcome, value |-> value]

\* -------------------------------------------------------------- fractions
RatLess(a, b) == a[1] * b[2] < b[1] * a[2]
RatEq(a, b) == a[1] * b[2] = b[1] * a[2]
\* Python's min returns the first of the smallest arguments.
Min2(a, b) == IF RatLess(b, a) THEN b ELSE a
Min3(a, b, c) == Min2(Min2(a, b), c)
IntMax(a, b) == IF b > a THEN b ELSE a
IntMin(a, b) == IF b < a THEN b ELSE a

\* ----------------------------------------------------- the process exit
\* external_program_calls.cleanup_and_exit(status): never returns.
cleanup_and_exit(status) ==
    /\ pc' = "exited"
    /\ exit_status' = status

\* ---------------------------------------------- __init__ and clear_cache
\* A mutation of clear_cache: the crop-image list is not reset.
clear_cache_forgets_crop ==
    /\ num_pages' = 0
    /\ page_display_list_cache' = <<>>
    /\ cache_cleared' = TRUE
    /\ UNCHANGED page_crop_image_list_cache

\* A mutation of clear_cache: only the page count is reset.
clear_cache_keeps_lists ==
    /\ num_pages' = 0
    /\ cache_cleared' = TRUE
    /\ UNCHANGED <<page_display_list_cache, page_crop_image_list_cache>>

\* The three assignments of clear_cache.
clear_cache ==
    /\ num_pages' = 0
    /\ page_display_list_cache' = <<>>
    /\ page_crop_image_list_cache' = <<>>
    /\ cache_cleared' = TRUE

Init ==
    /\ num_pages = 0
    /\ page_display_list_cache = <<>>
    /\ page_crop_image_list_cache = <<>>
    /\ cache_cleared = TRUE
    /\ document = NoDocument
    /\ handle_serial = 0
    /\ closed_handles = {}
    /\ getDisplayList_calls = ZeroCalls(0)
    /\ tl = <<0, 0>>
    /\ ret = Call("__init__", <<>>, "ok", <<>>)
    /\ pc = "running"
    /\ exit_status = 0
    /\ stderr = <<>>
    /\ stale_deref = FALSE

\* A caller's call of the public method clear_cache.
ClearCache ==
    /\ pc = "running"
    /\ clear_cache
    /\ ret' = Call("clear_cache", <<>>, "ok", <<>>)
    /\ UNCHANGED <<document, handle_serial, closed_handles,
                   getDisplayList_calls, tl, pc, exit_status, stderr,
                   stale_deref>>

\* -------------------------------------------------------- open_document
\* A mutation of open_succeeded: lists that already have the new length are
\* kept instead of being replaced.
open_succeeded_reuses_cache(doc_fname) ==
    /\ handle_serial < MaxOpens
    /\ handle_serial' = handle_serial + 1
    /\ document' = [id |-> handle_serial + 1, pages |-> doc_fname.pages,
                    size |-> doc_fname.size, closed |-> FALSE]
    /\ num_pages' = doc_fname.pages
    /\ page_display_list_cache' =
           IF Len(page_display_list_cache) = doc_fname.pages
           THEN page_display_list_cache ELSE NoneList(doc_fname.pages)
    /\ page_crop_image_list_cache' =
           IF Len(page_crop_image_list_cache) = doc_fname.pages
           THEN page_crop_image_list_cache ELSE NoneList(doc_fname.pages)
    /\ cache_cleared' = FALSE
    /\ getDisplayList_calls' = ZeroCalls(doc_fname.pages)
    /\ ret' = Call("open_document", <<doc_fname.name>>, "ok", doc_fname.pages)
    /\ UNCHANGED <<closed_handles, tl, pc, exit_status, stderr, stale_deref>>

\* fitz.open returned a new handle: lines 64 and 72-75.
open_succeeded(doc_fname) ==
    /\ handle_serial < MaxOpens
    /\ handle_serial' = handle_serial + 1
    /\ document' = [id |-> handle_serial + 1, pages |-> doc_fname.pages,
                    size |-> doc_fname.size, closed |-> FALSE]
    /\ num_pages' = doc_fname.pages
    /\ page_display_list_cache' = NoneList(doc_fname.pages)
    /\ page_crop_image_list_cache' = NoneList(doc_fname.pages)
    /\ cache_cleared' = FALSE
    /\ getDisplayList_calls' = ZeroCalls(doc_fname.pages)
    /\ ret' = Call("open_document", <<doc_fname.name>>, "ok", doc_fname.pages)
    /\ UNCHANGED <<closed_handles, tl, pc, exit_status, stderr, stale_deref>>

\* A mutation of open_failed: the handler prints the diagnostic and does not
\* exit, so the method goes on to return the page count it already had.
open_failed_returns(doc_fname) ==
    /\ stderr' = Append(stderr, doc_fname.name)
    /\ ret' = Call("open_document", <<doc_fname.name>>, "ok", num_pages)
    /\ UNCHANGED <<num_pages, page_display_list_cache,
                   page_crop_image_list_cache, cache_cleared, document,
                   handle_serial, closed_handles, getDisplayList_calls, tl, pc,
                   exit_status, stale_deref>>

\* fitz.open raised RuntimeError (self.document is not assigned): lines 65-71.
open_failed(doc_fname) ==
    /\ stderr' = Append(stderr, doc_fname.name)
    /\ cleanup_and_exit(1)
    /\ ret' = Call("open_document", <<doc_fname.name>>, "no return", <<>>)
    /\ UNCHANGED <<num_pages, page_display_list_cache,
                   page_crop_image_list_cache, cache_cleared, document,
                   handle_serial, closed_handles, getDisplayList_calls, tl,
                   stale_deref>>

open_document(doc_fname) ==
    /\ pc = "running"
    /\ IF doc_fname.readable
       THEN open_succeeded(doc_fname)
       ELSE open_failed(doc_fname)

\* A mutation of close_document: the handle is closed, the caches are kept.
close_document_keeps_cache ==
    /\ pc = "running"
    /\ document # NoDocument
    /\ ~document.closed
    /\ document' = [document EXCEPT !.closed = TRUE]
    /\ closed_handles' = closed_handles \cup {document.id}
    /\ ret' = Call("close_document", <<>>, "ok", <<>>)
    /\ UNCHANGED <<num_pages, page_display_list_cache,
                   page_crop_image_list_cache, cache_cleared, handle_serial,
                   getDisplayList_calls, tl, pc, exit_status, stderr,
                   stale_deref>>

\* ------------------------------------------------------- close_document
close_document ==
    /\ pc = "running"
    /\ IF document = NoDocument
       THEN \* AttributeError: the instance has no attribute document yet
            /\ ret' = Call("close_document", <<>>, "AttributeError", <<>>)
            /\ UNCHANGED <<num_pages, page_display_list_cache,
                           page_crop_image_list_cache, cache_cleared, document,
                           closed_handles>>
       ELSE IF document.closed
       THEN \* fitz refuses to close a closed document; clear_cache is not reached
            /\ ret' = Call("close_document", <<>>, "ValueError", <<>>)
            /\ UNCHANGED <<num_pages, page_display_list_cache,
                           page_crop_image_list_cache, cache_cleared, document,
                           closed_handles>>
       ELSE /\ document' = [document EXCEPT !.closed = TRUE]
            /\ closed_handles' = closed_handles \cup {document.id}
            /\ clear_cache
            /\ ret' = Call("close_document", <<>>, "ok", <<>>)
    /\ UNCHANGED <<handle_serial, getDisplayList_calls, tl, pc, exit_status,
                   stderr, stale_deref>>

\* --------------------------------------------------- the two cache uses
\* self.document[page_num].getDisplayList()
getDisplayList(page_num) ==
    [handle |-> document.id, page |-> page_num,
     serial |-> getDisplayList_calls["get_page"][page_num + 1]
                + getDisplayList_calls["get_page_ppm_for_crop"][page_num + 1] + 1,
     rect |-> document.size]

\* Mutations of needs_create: the test is dropped, or its "not" is.
needs_create_always(cached) == TRUE
needs_create_inverted(cached) == cached # None

\* "if not page_display_list" / "if not page_crop_image_list"
needs_create(cached) == cached = None

\* A mutation of store: the assignment reaches every slot of the list.
store_everywhere(cache, page_num, display_list) ==
    [j \in DOMAIN cache |-> display_list]

\* "self.<cache>[page_num] = ..."
store(cache, page_num, display_list) ==
    [cache EXCEPT ![page_num + 1] = display_list]

\* self.document[page_num] fails when there is no usable handle.
NoHandle == document = NoDocument \/ document.closed

\* A display list is stale when the handle it came from has been closed.
Stale(display_list) == display_list.handle \in closed_handles

CountCall(caller, page_num, created) ==
    IF created
    THEN [getDisplayList_calls EXCEPT ![caller][page_num + 1] = @ + 1]
    ELSE getDisplayList_calls

\* ------------------------------------------------ get_page_ppm_for_crop
\* A mutation of get_page_ppm_for_crop: it uses the list get_page uses.
get_page_ppm_for_crop_shared(page_num) ==
    /\ pc = "running"
    /\ IF page_num + 1 \notin DOMAIN page_display_list_cache
       THEN \* the lookup: list index out of range
            /\ ret' = Call("get_page_ppm_for_crop", [page_num |-> page_num],
                           "IndexError", <<>>)
            /\ UNCHANGED <<page_display_list_cache, getDisplayList_calls,
                           stale_deref>>
       ELSE IF needs_create(page_display_list_cache[page_num + 1]) /\ NoHandle
       THEN \* the creation: the handle cannot be indexed
            /\ ret' = Call("get_page_ppm_for_crop", [page_num |-> page_num],
                           "HandleError", <<>>)
            /\ stale_deref' = (stale_deref \/ document.closed)
            /\ UNCHANGED <<page_display_list_cache, getDisplayList_calls>>
       ELSE LET cached == page_display_list_cache[page_num + 1]
                page_crop_image_list ==
                    IF needs_create(cached) THEN getDisplayList(page_num)
                    ELSE cached
            IN  /\ page_display_list_cache' =
                       IF needs_create(cached)
                       THEN store(page_display_list_cache, page_num,
                                  page_crop_image_list)
                       ELSE page_display_list_cache
                /\ getDisplayList_calls' =
                       CountCall("get_page_ppm_for_crop", page_num,
                                 needs_create(cached))
                /\ stale_deref' = (stale_deref \/ Stale(page_crop_image_list))
                /\ ret' = Call("get_page_ppm_for_crop", [page_num |-> page_num],
                               "ok",
                               [image |-> [display_list |-> page_crop_image_list,
                                           matrix |-> <<1, 1>>, clip |-> <<>>,
                                           colorspace |-> "csGRAY"]])
    /\ UNCHANGED <<num_pages, page_crop_image_list_cache, cache_cleared, document,
                   handle_serial, closed_handles, tl, pc, exit_status, stderr>>

get_page_ppm_for_crop(page_num) ==
    /\ pc = "running"
    /\ IF page_num + 1 \notin DOMAIN page_crop_image_list_cache
       THEN \* line 89: list index out of range
            /\ ret' = Call("get_page_ppm_for_crop", [page_num |-> page_num],
                           "IndexError", <<>>)
            /\ UNCHANGED <<page_crop_image_list_cache, getDisplayList_calls,
                           stale_deref>>
       ELSE IF needs_create(page_crop_image_list_cache[page_num + 1]) /\ NoHandle
       THEN \* line 91: the handle cannot be indexed
            /\ ret' = Call("get_page_ppm_for_crop", [page_num |-> page_num],
                           "HandleError", <<>>)
            /\ stale_deref' = (stale_deref \/ document.closed)
            /\ UNCHANGED <<page_crop_image_list_cache, getDisplayList_calls>>
       ELSE LET cached == page_crop_image_list_cache[page_num + 1]
                page_crop_image_list ==
                    IF needs_create(cached) THEN getDisplayList(page_num)
                    ELSE cached
            IN  /\ page_crop_image_list_cache' =
                       IF needs_create(cached)
                       THEN store(page_crop_image_list_cache, page_num,
                                  page_crop_image_list)
                       ELSE page_crop_image_list_cache
                /\ getDisplayList_calls' =
                       CountCall("get_page_ppm_for_crop", page_num,
                                 needs_create(cached))
                /\ stale_deref' = (stale_deref \/ Stale(page_crop_image_list))
                /\ ret' = Call("get_page_ppm_for_crop", [page_num |-> page_num],
                               "ok",
                               [image |-> [display_list |-> page_crop_image_list,
                                           matrix |-> <<1, 1>>, clip |-> <<>>,
                                           colorspace |-> "csGRAY"]])
    /\ UNCHANGED <<num_pages, page_display_list_cache, cache_cleared, document,
                   handle_serial, closed_handles, tl, pc, exit_status, stderr>>

\* ------------------------------------------------------------- get_page
\* A mutation of zoom_0: only the width ratio is fitted.
zoom_0_width_only(window_size, rect) ==
    IF window_size = <<>>
    THEN <<1, 1>>
    ELSE LET first == Min2(<<1, 1>>, <<window_size[1], rect[1]>>)
         IN  IF RatEq(first, <<1, 1>>)
             THEN <<window_size[1], rect[1]>>
             ELSE first

\* A mutation of zoom_0: the second computation of lines 134-135 is missing.
zoom_0_once(window_size, rect) ==
    IF window_size = <<>>
    THEN <<1, 1>>
    ELSE Min3(<<1, 1>>, <<window_size[1], rect[1]>>, <<window_size[2], rect[2]>>)

\* Lines 131-135: the scale that fits the page rectangle into window_size.
zoom_0(window_size, rect) ==
    IF window_size = <<>>
    THEN <<1, 1>>
    ELSE LET first == Min3(<<1, 1>>, <<window_size[1], rect[1]>>,
                           <<window_size[2], rect[2]>>)
         IN  IF RatEq(first, <<1, 1>>)
             THEN Min2(<<window_size[1], rect[1]>>, <<window_size[2], rect[2]>>)
             ELSE first

\* A mutation of clamp_tl: the max(0, ...) of lines 144 and 147 is missing.
clamp_tl_no_floor(old, arrow, half) ==
    IntMin(half, old + arrow * (half \div 2))

\* Lines 143-145 and 146-148: one coordinate of the new top-left.
\* old is the coordinate of zoom[0], arrow is zoom[1] or zoom[2], half is w2 or h2.
clamp_tl(old, arrow, half) ==
    IntMin(half, IntMax(0, old + arrow * (half \div 2)))

\* Lines 139-148: the top-left the zoom branch leaves in zoom[0].
zoom_tl(zoom, rect) ==
    <<clamp_tl(zoom[1][1], zoom[2], rect[1] \div 2),
      clamp_tl(zoom[1][2], zoom[3], rect[2] \div 2)>>

\* A mutation of zoom_clip: w2 is used for the height as well.
zoom_clip_square(new_tl, rect) ==
    <<new_tl[1], new_tl[2], new_tl[1] + rect[1] \div 2, new_tl[2] + rect[1] \div 2>>

\* Line 149: fitz.Rect(tl, tl.x + w2, tl.y + h2)
zoom_clip(new_tl, rect) ==
    <<new_tl[1], new_tl[2], new_tl[1] + rect[1] \div 2, new_tl[2] + rect[2] \div 2>>

\* A mutation of page_rect: "clip = rect * 0.5" is done before "if zoom".
page_rect_half(rect) == <<0, 0, rect[1] \div 2, rect[2] \div 2>>

\* Lines 127-128: the page rectangle of a display list, whose top-left is the origin.
page_rect(rect) == <<0, 0, rect[1], rect[2]>>

\* Line 160: clip.tl
rect_tl(clip) == <<clip[1], clip[2]>>

\* A mutation of caller_point: the method works on a copy of zoom[0].
caller_point_copied(zoom, new_tl) == tl

\* Lines 142-148: tl is zoom[0] itself, so the caller's Point holds the new
\* top-left after a zoom call; without zoom no argument is assigned to.
caller_point(zoom, new_tl) == IF zoom # <<>> THEN new_tl ELSE tl

\* The arguments ret keeps of a get_page call.  The value of a call that
\* returns is the pixmap request behind the image, the local clip and clip.tl.
GetPageArgs(page_num, window_size, zoom) ==
    [page_num |-> page_num, window_size |-> window_size,
     arrows |-> IF zoom = <<>> THEN <<>> ELSE <<zoom[2], zoom[3]>>]

get_page(page_num, window_size, zoom, fit_screen) ==
    /\ pc = "running"
    /\ IF page_num + 1 \notin DOMAIN page_display_list_cache
       THEN \* line 122: list index out of range
            /\ ret' = Call("get_page", GetPageArgs(page_num, window_size, zoom),
                           "IndexError", <<>>)
            /\ UNCHANGED <<page_display_list_cache, getDisplayList_calls, tl,
                           stale_deref>>
       ELSE IF needs_create(page_display_list_cache[page_num + 1]) /\ NoHandle
       THEN \* line 124: the handle cannot be indexed
            /\ ret' = Call("get_page", GetPageArgs(page_num, window_size, zoom),
                           "HandleError", <<>>)
            /\ stale_deref' = (stale_deref \/ document.closed)
            /\ UNCHANGED <<page_display_list_cache, getDisplayList_calls, tl>>
       ELSE \* each local of the method is bound once, to the value the code computes
            \E cached \in {page_display_list_cache[page_num + 1]} :
            \E page_display_list \in
                   {IF needs_create(cached) THEN getDisplayList(page_num)
                    ELSE cached} :
            \E rect \in {page_display_list.rect} :
            \E mat_0 \in {zoom_0(window_size, rect)} :
            \E new_tl \in {IF zoom = <<>> THEN <<0, 0>> ELSE zoom_tl(zoom, rect)} :
                /\ page_display_list_cache' =
                       IF needs_create(cached)
                       THEN store(page_display_list_cache, page_num,
                                  page_display_list)
                       ELSE page_display_list_cache
                /\ getDisplayList_calls' =
                       CountCall("get_page", page_num, needs_create(cached))
                /\ stale_deref' = (stale_deref \/ Stale(page_display_list))
                /\ tl' = caller_point(zoom, new_tl)
                /\ IF zoom # <<>>
                   THEN /\ ret' = Call("get_page",
                                       GetPageArgs(page_num, window_size, zoom),
                                       "ok",
                                       [image |->
                                           [display_list |-> page_display_list,
                                            matrix |-> <<mat_0[1] * 2, mat_0[2]>>,
                                            clip |-> zoom_clip(new_tl, rect),
                                            colorspace |-> "csRGB"],
                                        clip |-> zoom_clip(new_tl, rect),
                                        tl |-> rect_tl(zoom_clip(new_tl, rect))])
                   ELSE /\ ret' = Call("get_page",
                                       GetPageArgs(page_num, window_size, zoom),
                                       "ok",
                                       [image |->
                                           [display_list |-> page_display_list,
                                            matrix |-> mat_0, clip |-> <<>>,
                                            colorspace |-> "csRGB"],
                                        clip |-> page_rect(rect),
                                        tl |-> rect_tl(page_rect(rect))])
    /\ UNCHANGED <<num_pages, page_crop_image_list_cache, cache_cleared,
                   document, handle_serial, closed_handles, pc, exit_status,
                   stderr>>

\* ------------------------------------------------------ the specification
\* Two specifications run the same methods.  Spec follows the caches through
\* opens, closes and renders of files of every page count; SpecRender follows
\* the geometry of get_page over every page size, viewport and arrow pair on
\* one-page files.  The caller's zoom[0] is always its Point tl, which
\* get_page updates in place.

OpenDocument(files) == \E doc_fname \in files : open_document(doc_fname)
CloseDocument == close_document
GetPagePpmForCrop == \E page_num \in PageNums : get_page_ppm_for_crop(page_num)
GetPage(page_nums, windows, zooms, fits) ==
    \E page_num \in page_nums, window_size \in windows, zoom \in zooms,
       fit_screen \in fits :
        get_page(page_num, window_size, zoom, fit_screen)

\* Spec: files of one page size; the caller renders without a viewport or
\* into one viewport, unzoomed or zooming down and right.
LifeFiles == {f \in Files : f.readable => f.size = <<4, 8>>}
LifeWindows == {<<>>, <<4, 4>>}
LifeZooms == {<<>>, <<tl, 1, 1>>}

Next ==
    \/ ClearCache
    \/ OpenDocument(LifeFiles)
    \/ CloseDocument
    \/ GetPagePpmForCrop
    \/ GetPage(PageNums, LifeWindows, LifeZooms, BOOLEAN)

Spec == Init /\ [][Next]_vars

\* SpecRender starts where open_document has just returned for a one-page
\* file of any page size (the state open_succeeded leaves after Init); the
\* caller may also replace its Point by one outside the page on both axes.
OnePageFiles == {f \in ReadableFiles : f.pages = 1}
NewPoints == {<<-1, 2 * MaxDim + 1>>, <<2 * MaxDim + 1, -1>>}
Zooms == {<<>>} \cup ({tl} \X Arrows \X Arrows)

InitRender ==
    \E doc_fname \in OnePageFiles :
        /\ num_pages = doc_fname.pages
        /\ page_display_list_cache = NoneList(doc_fname.pages)
        /\ page_crop_image_list_cache = NoneList(doc_fname.pages)
        /\ cache_cleared = FALSE
        /\ document = [id |-> 1, pages |-> doc_fname.pages,
                       size |-> doc_fname.size, closed |-> FALSE]
        /\ handle_serial = 1
        /\ closed_handles = {}
        /\ getDisplayList_calls = ZeroCalls(doc_fname.pages)
        /\ tl = <<0, 0>>
        /\ ret = Call("open_document", <<doc_fname.name>>, "ok", doc_fname.pages)
        /\ pc = "running"
        /\ exit_status = 0
        /\ stderr = <<>>
        /\ stale_deref = FALSE

NewPoint ==
    /\ pc = "running"
    /\ \E p \in NewPoints :
           /\ tl' = p
           /\ ret' = Call("Point", <<>>, "ok", p)
    /\ UNCHANGED <<num_pages, page_display_list_cache,
                   page_crop_image_list_cache, cache_cleared, document,
                   handle_serial, closed_handles, getDisplayList_calls, pc,
                   exit_status, stderr, stale_deref>>

NextRender ==
    \/ NewPoint
    \/ GetPage({0}, Windows, Zooms, BOOLEAN)

SpecRender == InitRender /\ [][NextRender]_vars


\* ------------------------------------------------------------ the claims
RenderReturned == ret.op \in Callers /\ ret.outcome = "ok"
CacheOf(caller) ==
    IF caller = "get_page" THEN page_display_list_cache
    ELSE page_crop_image_list_cache
AllNone(cache) == \A i \in DOMAIN cache : cache[i] = None
DocumentOpen == document # NoDocument /\ ~document.closed

\* C1 as amended: within one document lifetime each of the two operations
\* materializes a page's display list on its own first call for that page,
\* into its own cache, and reuses it afterwards: getDisplayList runs exactly
\* once per page index and operation.
C1_OncePerOperation ==
    /\ \A c \in Callers : \A i \in DOMAIN getDisplayList_calls[c] :
           getDisplayList_calls[c][i] <= 1
    /\ RenderReturned =>
           /\ getDisplayList_calls[ret.op][ret.args.page_num + 1] = 1
           /\ CacheOf(ret.op)[ret.args.page_num + 1] = ret.value.image.display_list
           /\ ret.value.image.display_list # None

\* C1 as stated: getDisplayList runs once per page index whichever of the
\* two operations is called.
C1_OnceForBothOperations ==
    \A i \in DOMAIN getDisplayList_calls["get_page"] :
        getDisplayList_calls["get_page"][i]
        + getDisplayList_calls["get_page_ppm_for_crop"][i] <= 1

\* get_page, then get_page_ppm_for_crop, then get_page again on one page.
C1_Witness ==
    /\ ret.op = "get_page" /\ ret.outcome = "ok"
    /\ page_display_list_cache[ret.args.page_num + 1].serial = 1
    /\ page_crop_image_list_cache[ret.args.page_num + 1].serial = 2

\* C2: a successful open_document of an N-page file returns N and leaves
\* num_pages = N and both caches of length N with every slot None, whatever
\* the state before.
C2_OpenAllocatesEmptyCaches ==
    (ret.op = "open_document" /\ ret.outcome = "ok") =>
        /\ ret.value = document.pages
        /\ num_pages = document.pages
        /\ Len(page_display_list_cache) = document.pages
        /\ Len(page_crop_image_list_cache) = document.pages
        /\ AllNone(page_display_list_cache)
        /\ AllNone(page_crop_image_list_cache)

\* A second open of a file with pages.
C2_Witness ==
    /\ ret.op = "open_document" /\ ret.outcome = "ok"
    /\ handle_serial = 2
    /\ ret.value = MaxPages

\* C3 as amended: both caches always have num_pages entries; num_pages is
\* the open document's page count until clear_cache runs, and 0 before any
\* open, after every close and after every clear_cache.
C3_LengthsEqualPageCount ==
    /\ Len(page_display_list_cache) = num_pages
    /\ Len(page_crop_image_list_cache) = num_pages
    /\ num_pages = (IF cache_cleared THEN 0 ELSE document.pages)
    /\ ~DocumentOpen => cache_cleared

\* C3 as stated: while a document is open num_pages is its page count.
C3_LengthsFollowOpenDocument ==
    /\ Len(page_display_list_cache) = num_pages
    /\ Len(page_crop_image_list_cache) = num_pages
    /\ num_pages = (IF DocumentOpen THEN document.pages ELSE 0)

\* clear_cache was called on an open document that has pages.
C3_Witness ==
    /\ DocumentOpen
    /\ document.pages > 0
    /\ ret.op = "clear_cache"

UnreadableNames == {f.name : f \in UnreadableFiles}

\* C4: an open_document of a file fitz.open cannot read prints a diagnostic
\* naming the path, exits with a non-zero status and returns nothing, leaving
\* num_pages and both caches as they were; nothing runs after the exit.
C4_FailedOpenNeverReturns ==
    [][/\ pc = "running"
       /\ (ret'.op = "open_document" /\ ret'.args[1] \in UnreadableNames) =>
              /\ ret'.outcome = "no return"
              /\ pc' = "exited"
              /\ exit_status' # 0
              /\ stderr' = Append(stderr, ret'.args[1])
              /\ UNCHANGED <<num_pages, page_display_list_cache,
                             page_crop_image_list_cache>>]_vars

\* A failed open of corrupt.pdf while a document with filled caches is open.
C4_Witness ==
    /\ pc = "exited"
    /\ stderr = <<"corrupt.pdf">>
    /\ num_pages > 0
    /\ ~AllNone(page_display_list_cache)

\* C5: close_document leaves num_pages 0 and both caches empty; an
\* open_document after a close leaves both caches all None and sized to the
\* new document, and every later render of page i uses a display list made
\* from page i of the new handle.
C5_CloseThenOpenIsFresh ==
    /\ (ret.op = "close_document" /\ ret.outcome = "ok") =>
           /\ num_pages = 0
           /\ page_display_list_cache = <<>>
           /\ page_crop_image_list_cache = <<>>
    /\ (closed_handles # {} /\ ret.op = "open_document" /\ ret.outcome = "ok") =>
           /\ Len(page_display_list_cache) = document.pages
           /\ Len(page_crop_image_list_cache) = document.pages
           /\ AllNone(page_display_list_cache)
           /\ AllNone(page_crop_image_list_cache)
    /\ (closed_handles # {} /\ RenderReturned) =>
           /\ ret.value.image.display_list.handle = document.id
           /\ ret.value.image.display_list.handle \notin closed_handles
           /\ ret.value.image.display_list.page = ret.args.page_num

\* A render that returned on the second handle, after the first was closed.
C5_Witness ==
    /\ RenderReturned
    /\ closed_handles = {1}
    /\ document.id = 2

\* C6: when close_document returns the handle is closed, num_pages is 0 and
\* both caches are empty; until the next successful open every render raises
\* at the cache lookup, so none reads the closed handle or a display list
\* made from it.
C6_NoStaleDereference ==
    /\ ~stale_deref
    /\ (ret.op = "close_document" /\ ret.outcome = "ok") => document.closed
    /\ document.closed =>
           /\ num_pages = 0
           /\ Len(page_display_list_cache) = 0
           /\ Len(page_crop_image_list_cache) = 0
           /\ ret.op \in Callers => ret.outcome = "IndexError"

\* A render was attempted on a closed document.
C6_Witness ==
    /\ document.closed
    /\ ret.op \in Callers


\* C7 as amended: get_page_ppm_for_crop does not touch the render-list cache;
\* the only slot it may fill is the slot of page_num in the crop-image cache,
\* and every other slot of that cache stays as it was.
C7_CropFillsOnlyCropCache ==
    [][ret'.op = "get_page_ppm_for_crop" =>
           /\ page_display_list_cache' = page_display_list_cache
           /\ DOMAIN page_crop_image_list_cache' = DOMAIN page_crop_image_list_cache
           /\ \A j \in DOMAIN page_crop_image_list_cache :
                  j # ret'.args.page_num + 1 =>
                      page_crop_image_list_cache'[j] = page_crop_image_list_cache[j]
           /\ ret'.outcome = "ok" =>
                  page_crop_image_list_cache'[ret'.args.page_num + 1]
                      = ret'.value.image.display_list]_vars

\* C7 as stated: the crop-image cache stays all None for the whole lifetime.
C7_CropCacheStaysEmpty == AllNone(page_crop_image_list_cache)

\* get_page_ppm_for_crop returned for a page get_page has not rendered.
C7_Witness ==
    /\ ret.op = "get_page_ppm_for_crop" /\ ret.outcome = "ok"
    /\ page_crop_image_list_cache[ret.args.page_num + 1] # None
    /\ page_display_list_cache[ret.args.page_num + 1] = None

\* C8: once a slot of either cache holds a display list, every get_page and
\* get_page_ppm_for_crop call leaves that slot holding the same display list.
C8_FilledSlotKept ==
    [][ret'.op \in Callers =>
           \A c \in Callers : \A i \in DOMAIN CacheOf(c) :
               CacheOf(c)[i] # None =>
                   /\ i \in DOMAIN CacheOf(c)'
                   /\ CacheOf(c)'[i] = CacheOf(c)[i]]_vars

\* get_page_ppm_for_crop, then get_page, then get_page_ppm_for_crop again on
\* one page, each cache still holding the display list it was given first.
C8_Witness ==
    /\ ret.op = "get_page_ppm_for_crop" /\ ret.outcome = "ok"
    /\ page_crop_image_list_cache[ret.args.page_num + 1].serial = 1
    /\ page_display_list_cache[ret.args.page_num + 1].serial = 2

ZoomReturned ==
    ret.op = "get_page" /\ ret.outcome = "ok" /\ ret.args.arrows # <<>>

\* C9: the top-left a zoom-mode get_page returns has x in [0, W/2] and y in
\* [0, H/2], for every page size, previous top-left and arrow pair.
C9_ZoomClamp ==
    ZoomReturned =>
        /\ 0 <= ret.value.tl[1] /\ 2 * ret.value.tl[1] <= document.size[1]
        /\ 0 <= ret.value.tl[2] /\ 2 * ret.value.tl[2] <= document.size[2]

\* A zoom from a point left of the page and below it, clamped on both axes.
C9_Witness ==
    /\ ZoomReturned
    /\ ret.args.arrows = <<-1, 1>>
    /\ ret.value.tl = <<0, document.size[2] \div 2>>

\* s is a least element of the fractions S.
IsLeast(s, S) ==
    /\ \E t \in S : RatEq(s, t)
    /\ \A t \in S : ~RatLess(t, s)

\* The scale of the last get_page: the render matrix, halved in zoom mode.
ScaleUsed ==
    IF ret.args.arrows = <<>> THEN ret.value.image.matrix
    ELSE <<ret.value.image.matrix[1], 2 * ret.value.image.matrix[2]>>

\* C10: with a viewport (Vw,Vh) the scale get_page uses is min(1, Vw/W, Vh/H),
\* except that it is min(Vw/W, Vh/H) when that value is exactly 1; without a
\* viewport it is 1.
C10_BaseFitScale ==
    (ret.op = "get_page" /\ ret.outcome = "ok") =>
        IF ret.args.window_size = <<>>
        THEN RatEq(ScaleUsed, <<1, 1>>)
        ELSE LET ratios == {<<ret.args.window_size[1], document.size[1]>>,
                            <<ret.args.window_size[2], document.size[2]>>}
             IN  IF IsLeast(<<1, 1>>, ratios \cup {<<1, 1>>})
                 THEN IsLeast(ScaleUsed, ratios)
                 ELSE IsLeast(ScaleUsed, ratios \cup {<<1, 1>>})

\* A viewport larger than the page on both axes: the scale exceeds 1.
C10_Witness ==
    /\ ret.op = "get_page" /\ ret.outcome = "ok"
    /\ ret.args.window_size # <<>>
    /\ RatLess(<<1, 1>>, ScaleUsed)


NoZoomReturned ==
    ret.op = "get_page" /\ ret.outcome = "ok" /\ ret.args.arrows = <<>>

\* C11: a get_page without zoom renders the entire page: its clip is the
\* page rectangle (0,0,W,H), no clip is passed to the renderer, and the
\* top-left it returns is that rectangle's, for every viewport and
\* fit_screen value.
C11_NoZoomClipIsPage ==
    NoZoomReturned =>
        /\ ret.value.clip = <<0, 0, document.size[1], document.size[2]>>
        /\ ret.value.image.clip = <<>>
        /\ ret.value.tl = <<0, 0>>

\* An unzoomed render into a viewport smaller than the page, the caller's
\* Point lying elsewhere.
C11_Witness ==
    /\ NoZoomReturned
    /\ ret.args.window_size # <<>>
    /\ ret.args.window_size[1] < document.size[1]
    /\ tl # <<0, 0>>


Clamp(v, lo, hi) == IF v < lo THEN lo ELSE IF v > hi THEN hi ELSE v

\* C12: a zoom-mode get_page on a page of size (W,H), called with the old
\* top-left (x,y) and arrows (dx,dy), returns the top-left
\* (clamp(x + dx*W/4, 0, W/2), clamp(y + dy*H/4, 0, H/2)) and renders the
\* window of width W/2 and height H/2 anchored there, which lies inside the
\* page rectangle.
C12_ZoomStep ==
    [][(ret'.op = "get_page" /\ ret'.outcome = "ok" /\ ret'.args.arrows # <<>>) =>
           LET W == document.size[1]
               H == document.size[2]
               nx == Clamp(tl[1] + ret'.args.arrows[1] * (W \div 4), 0, W \div 2)
               ny == Clamp(tl[2] + ret'.args.arrows[2] * (H \div 4), 0, H \div 2)
               clip == ret'.value.clip
           IN  /\ ret'.value.tl = <<nx, ny>>
               /\ clip = <<nx, ny, nx + W \div 2, ny + H \div 2>>
               /\ ret'.value.image.clip = clip
               /\ 0 <= clip[1] /\ clip[3] <= W
               /\ 0 <= clip[2] /\ clip[4] <= H]_vars

\* One unclamped step down and right from the origin.
C12_Witness ==
    /\ ZoomReturned
    /\ ret.args.arrows = <<1, 1>>
    /\ ret.value.tl = <<document.size[1] \div 4, document.size[2] \div 4>>


\* C13: with a viewport (Vw,Vh) the rendered image fits it: unzoomed,
\* scale*W <= Vw and scale*H <= Vh; zoomed, the W/2 x H/2 window rendered at
\* twice the scale is no larger than the viewport and has the pixel extent of
\* the full-page image.
C13_ImageFitsViewport ==
    (ret.op = "get_page" /\ ret.outcome = "ok" /\ ret.args.window_size # <<>>) =>
        LET W == document.size[1]
            H == document.size[2]
            Vw == ret.args.window_size[1]
            Vh == ret.args.window_size[2]
            m == ret.value.image.matrix
            cw == ret.value.clip[3] - ret.value.clip[1]
            ch == ret.value.clip[4] - ret.value.clip[2]
        IN  IF ret.args.arrows = <<>>
            THEN /\ m[1] * W <= Vw * m[2]
                 /\ m[1] * H <= Vh * m[2]
            ELSE /\ m[1] * cw <= Vw * m[2]
                 /\ m[1] * ch <= Vh * m[2]
                 /\ m[1] * cw * ScaleUsed[2] = ScaleUsed[1] * W * m[2]
                 /\ m[1] * ch * ScaleUsed[2] = ScaleUsed[1] * H * m[2]

\* A zoomed render enlarged to fill the width of a viewport wider than the page.
C13_Witness ==
    /\ ZoomReturned
    /\ ret.args.window_size # <<>>
    /\ ret.args.window_size[1] > document.size[1]
    /\ ret.value.image.matrix[1] * (ret.value.clip[3] - ret.value.clip[1])
           = ret.args.window_size[1] * ret.value.image.matrix[2]


\* What page page_num of the open document yields without any cache, up to
\* which getDisplayList call made it.
Uncached(page_num) ==
    [handle |-> document.id, page |-> page_num, rect |-> document.size]
Content(display_list) ==
    [handle |-> display_list.handle, page |-> display_list.page,
     rect |-> display_list.rect]

\* C14: after any calls, an open_document on top of an open document
\* included, every display list in either cache was made from that page of
\* the current document, and a render of page i uses such a list: its result
\* is the one an implementation without a cache returns.
C14_CacheTransparent ==
    /\ \A c \in Callers : \A i \in DOMAIN CacheOf(c) :
           CacheOf(c)[i] # None => Content(CacheOf(c)[i]) = Uncached(i - 1)
    /\ RenderReturned =>
           Content(ret.value.image.display_list) = Uncached(ret.args.page_num)

\* A render on a second document that was opened while the first, whose
\* page had been rendered, was never closed.
C14_Witness ==
    /\ RenderReturned
    /\ document.id = 2
    /\ closed_handles = {}
    /\ getDisplayList_calls[ret.op][ret.args.page_num + 1] = 1


\* C15: a zoom-mode get_page leaves the new clamped top-left in the Point
\* the caller passed, equal to the top-left it returns; a get_page without
\* zoom leaves the caller's Point as it was.
C15_PointUpdatedInPlace ==
    [][(ret'.op = "get_page" /\ ret'.outcome = "ok") =>
           IF ret'.args.arrows # <<>>
           THEN /\ tl' = ret'.value.tl
                /\ 0 <= tl'[1] /\ 2 * tl'[1] <= document.size[1]
                /\ 0 <= tl'[2] /\ 2 * tl'[2] <= document.size[2]
           ELSE tl' = tl]_vars

\* The caller's Point after zooming right from a quarter of the page width.
C15_Witness ==
    /\ ZoomReturned
    /\ ret.args.arrows = <<1, 0>>
    /\ tl = <<document.size[1] \div 2, 0>>
    /\ tl = ret.value.tl


\* C16: a get_page call for page i changes at most slot i of
\* page_display_list_cache: num_pages, the document handle, the length and
\* every other slot of page_display_list_cache, and the whole of
\* page_crop_image_list_cache are the same after the call as before it,
\* whatever the window size, zoom and fit_screen arguments.
C16_GetPageFrame ==
    [][ret'.op = "get_page" =>
           /\ num_pages' = num_pages
           /\ document' = document
           /\ page_crop_image_list_cache' = page_crop_image_list_cache
           /\ DOMAIN page_display_list_cache' = DOMAIN page_display_list_cache
           /\ \A j \in DOMAIN page_display_list_cache :
                  j # ret'.args.page_num + 1 =>
                      page_display_list_cache'[j] = page_display_list_cache[j]]_vars

\* A zoomed get_page has just created the display list of one page of a
\* two-page document whose other page has none, while the crop list holds
\* a display list of its own.
C16_Witness ==
    /\ ZoomReturned
    /\ Len(page_display_list_cache) = 2
    /\ getDisplayList_calls["get_page"][ret.args.page_num + 1] = 1
    /\ page_display_list_cache[ret.args.page_num + 1]
           = ret.value.image.display_list
    /\ \E j \in 1..2 : page_display_list_cache[j] = None
    /\ \E j \in 1..2 : page_crop_image_list_cache[j] # None

====
